---- MODULE Spec2Model ----
(***************************************************************************)
(* Model of the Redis database plugin (redis.go): the credential lifecycle *)
(* operations NewUser, UpdateUser, DeleteUser and Type of RedisDB, the     *)
(* connection producer they use, and the ACL tables of the store nodes.    *)
(*                                                                         *)
(* A Go string is modelled as a sequence of one-character strings, so that *)
(* trimming, truncation, upper-casing and JSON decoding are computed.      *)
(***************************************************************************)
EXTENDS Integers, Sequences, FiniteSets, TLC

\* ------------------------------------------------------------------ bounds
NumCallers == 2        \* concurrent callers of the plugin instance
MaxNodes == 2          \* largest cluster
MaxCalls == 2          \* lifecycle calls invoked in one behaviour
MaxNameLen == 66       \* longest display / role name tried by SpecName
MaxStmts == 3          \* longest list of creation statements tried by SpecCreate

\* --------------------------------------------------------------- constants
maxKeyLength == 64
usernameMaxLen == 100  \* credsutil.GenerateUsername: default overall maximum
uuidLen == 20          \* credsutil.GenerateUsername: random part
redisTypeName == <<"r", "e", "d", "i", "s">>
defaultRedisUserRule ==
  << "[", "\"", "~", "*", "\"", ",", " ", "\"", "+", "@", "r", "e", "a", "d", "\"", "]" >>

\* ----------------------------------------------------------- Go strings
Lower == << "a","b","c","d","e","f","g","h","i","j","k","l","m",
            "n","o","p","q","r","s","t","u","v","w","x","y","z" >>
Upper == << "A","B","C","D","E","F","G","H","I","J","K","L","M",
            "N","O","P","Q","R","S","T","U","V","W","X","Y","Z" >>

Rep(c, n) == [i \in 1..n |-> c]

trunc(str, maxLen) ==
  IF maxLen > 0
  THEN IF Len(str) > maxLen THEN SubSeq(str, 1, maxLen) ELSE str
  ELSE IF maxLen = 0 THEN <<>> ELSE str

ToUpperChar(c) ==
  IF \E i \in 1..26 : Lower[i] = c
  THEN Upper[CHOOSE i \in 1..26 : Lower[i] = c]
  ELSE c

ToUpper(s) == [i \in 1..Len(s) |-> ToUpperChar(s[i])]

IsUpperCase(s) == \A i \in 1..Len(s) : \A k \in 1..26 : s[i] # Lower[k]

Space == {" ", "\t", "\n", "\r"}

RECURSIVE TrimLeft(_)
TrimLeft(s) ==
  IF s # <<>> /\ Head(s) \in Space THEN TrimLeft(Tail(s)) ELSE s

RECURSIVE TrimRight(_)
TrimRight(s) ==
  IF s # <<>> /\ s[Len(s)] \in Space
  THEN TrimRight(SubSeq(s, 1, Len(s) - 1)) ELSE s

TrimSpace(s) == TrimRight(TrimLeft(s))

\* ------------------------------------------------- username generation
RECURSIVE joinNonEmpty(_, _)
joinNonEmpty(sep, parts) ==
  IF parts = <<>> THEN <<>>
  ELSE LET rest == joinNonEmpty(sep, Tail(parts))
       IN  IF Head(parts) = <<>> THEN rest
           ELSE IF rest = <<>> THEN Head(parts)
           ELSE Head(parts) \o sep \o rest

\* credsutil.GenerateUsername(DisplayName(d, n), RoleName(r, n)): the parts
\* "v", the truncated display name, the truncated role name, a random part
\* and the time stamp, joined by "_" and cut to the default maximum length.
GenerateUsername(displayName, roleName, uuid, now) ==
  trunc(joinNonEmpty(<<"_">>,
                     << <<"v">>,
                        trunc(displayName, maxKeyLength),
                        trunc(roleName, maxKeyLength),
                        uuid, now >>),
        usernameMaxLen)

NewUserName(displayName, roleName, uuid, now) ==
  ToUpper(GenerateUsername(displayName, roleName, uuid, now))

\* ------------------------------------------------------ rule statements
\* removeEmpty without the TrimSpace
RECURSIVE removeEmptyNoTrim(_)
removeEmptyNoTrim(strs) ==
  IF strs = <<>> THEN <<>>
  ELSE IF Head(strs) = <<>> THEN removeEmptyNoTrim(Tail(strs))
  ELSE <<Head(strs)>> \o removeEmptyNoTrim(Tail(strs))

RECURSIVE removeEmpty(_)
removeEmpty(strs) ==
  IF strs = <<>> THEN <<>>
  ELSE LET str == TrimSpace(Head(strs))
       IN  IF str = <<>> THEN removeEmpty(Tail(strs))
           ELSE <<str>> \o removeEmpty(Tail(strs))

RECURSIVE SkipWS(_, _)
SkipWS(s, i) ==
  IF i <= Len(s) /\ s[i] \in Space THEN SkipWS(s, i + 1) ELSE i

HasNull(s, i) ==
  /\ i + 3 <= Len(s)
  /\ SubSeq(s, i, i + 3) = <<"n", "u", "l", "l">>

JSONFail == [ok |-> FALSE, val |-> <<>>, next |-> 0]

\* s[i] is the first character after the opening quote of a JSON string
RECURSIVE ScanString(_, _, _)
ScanString(s, i, acc) ==
  IF i > Len(s) THEN JSONFail
  ELSE IF s[i] = "\"" THEN [ok |-> TRUE, val |-> acc, next |-> i + 1]
  ELSE IF s[i] \in {"\n", "\t", "\r"} THEN JSONFail
  ELSE IF s[i] = "\\"
       THEN IF i + 1 <= Len(s) /\ s[i + 1] \in {"\"", "\\", "/"}
            THEN ScanString(s, i + 2, Append(acc, s[i + 1]))
            ELSE JSONFail
  ELSE ScanString(s, i + 1, Append(acc, s[i]))

\* the elements of an array of strings, from position i, up to its "]"
RECURSIVE ScanElems(_, _, _)
ScanElems(s, i, acc) ==
  LET j == SkipWS(s, i)
      el == IF j > Len(s) THEN JSONFail
            ELSE IF s[j] = "\"" THEN ScanString(s, j + 1, <<>>)
            ELSE IF HasNull(s, j) THEN [ok |-> TRUE, val |-> <<>>, next |-> j + 4]
            ELSE JSONFail
      k == SkipWS(s, el.next)
  IN  IF ~el.ok \/ k > Len(s) THEN JSONFail
      ELSE IF s[k] = "," THEN ScanElems(s, k + 1, Append(acc, el.val))
      ELSE IF s[k] = "]"
           THEN [ok |-> TRUE, val |-> Append(acc, el.val), next |-> k + 1]
      ELSE JSONFail

\* json.Unmarshal([]byte(s), &args) with args a []string:
\* ok = (err == nil), val = args
Unmarshal(s) ==
  LET j == SkipWS(s, 1)
      v == IF j > Len(s) THEN JSONFail
           ELSE IF HasNull(s, j) THEN [ok |-> TRUE, val |-> <<>>, next |-> j + 4]
           ELSE IF s[j] = "["
                THEN LET k == SkipWS(s, j + 1)
                     IN  IF k <= Len(s) /\ s[k] = "]"
                         THEN [ok |-> TRUE, val |-> <<>>, next |-> k + 1]
                         ELSE ScanElems(s, j + 1, <<>>)
           ELSE JSONFail
  IN  IF v.ok /\ SkipWS(s, v.next) > Len(s)
      THEN [ok |-> TRUE, val |-> v.val]
      ELSE [ok |-> FALSE, val |-> <<>>]

\* the words of the ACL commands
SETUSER == <<"S","E","T","U","S","E","R">>
GETUSER == <<"G","E","T","U","S","E","R">>
DELUSER == <<"D","E","L","U","S","E","R">>
RESETPASS == <<"R","E","S","E","T","P","A","S","S">>
ON == <<"O","N">>

\* BuildCreate with the error of json.Unmarshal dropped
BuildCreateIgnoreError(username, password, commands) ==
  LET stripped == removeEmpty(commands)
      statements == IF Len(stripped) = 0
                    THEN Append(stripped, defaultRedisUserRule)
                    ELSE stripped
  IN  [ok |-> TRUE,
       aclargs |-> << SETUSER, username, ON, <<">">> \o password >>
                   \o Unmarshal(statements[1]).val]

\* BuildCreate that decodes the last statement instead of the first
BuildCreateLastStatement(username, password, commands) ==
  LET stripped == removeEmpty(commands)
      statements == IF Len(stripped) = 0
                    THEN Append(stripped, defaultRedisUserRule)
                    ELSE stripped
      aclargs == << SETUSER, username, ON, <<">">> \o password >>
      dec == Unmarshal(statements[Len(statements)])
  IN  IF dec.ok THEN [ok |-> TRUE, aclargs |-> aclargs \o dec.val]
      ELSE [ok |-> FALSE, aclargs |-> <<>>]

\* newUser up to the store command: the arguments of the ACL command, or
\* the decoding error
BuildCreate(username, password, commands) ==
  LET stripped == removeEmpty(commands)
      statements == IF Len(stripped) = 0
                    THEN Append(stripped, defaultRedisUserRule)
                    ELSE stripped
      aclargs == << SETUSER, username, ON, <<">">> \o password >>
      dec == Unmarshal(statements[1])
  IN  IF dec.ok THEN [ok |-> TRUE, aclargs |-> aclargs \o dec.val]
      ELSE [ok |-> FALSE, aclargs |-> <<>>]

\* ------------------------------------------------------------ the store
Nodes == 1..MaxNodes
Procs == 1..NumCallers

\* inputs of the lifecycle specification
DisplayIn == <<"t","k">>
RoleIn == <<"r","o">>
NowIn == Rep("1", 10)
UUIDs == {Rep("x", uuidLen), Rep("y", uuidLen)}
UserNames == {NewUserName(DisplayIn, RoleIn, u, NowIn) : u \in UUIDs}
Pw1 == <<"p","1">>
Pw2 == <<"p","2">>
CustomRule == <<" ", "[", "\"", "+", "@", "a", "l", "l", "\"", "]", " ">>
BadRule == <<"+", "@", "a", "l", "l">>
StmtLists ==
  { <<>>,
    << <<>>, <<" ", "\t">> >>,
    << <<" ">>, CustomRule, BadRule >>,
    << <<>>, BadRule, CustomRule >> }

\* an entry of a node's ACL table
Absent == [exists |-> FALSE, on |-> FALSE, pws |-> {}, rules |-> <<>>]
FreshUser == [exists |-> TRUE, on |-> FALSE, pws |-> {}, rules |-> <<>>]

\* the store's ACL SETUSER: the modifiers are applied from left to right
RECURSIVE ApplyMods(_, _)
ApplyMods(rec, mods) ==
  IF mods = <<>> THEN rec
  ELSE LET m == Head(mods)
           r == IF m = ON THEN [rec EXCEPT !.on = TRUE]
                ELSE IF m = RESETPASS THEN [rec EXCEPT !.pws = {}]
                ELSE IF m # <<>> /\ Head(m) = ">"
                     THEN [rec EXCEPT !.pws = @ \cup {Tail(m)}]
                ELSE [rec EXCEPT !.rules = Append(@, m)]
       IN  ApplyMods(r, Tail(mods))

\* the ACL table of one node after it has executed ACL args...
DoACL(tbl, args) ==
  LET u == args[2]
  IN  IF args[1] = SETUSER
      THEN [tbl EXCEPT ![u] = ApplyMods(IF @.exists THEN @ ELSE FreshUser,
                                        SubSeq(args, 3, Len(args)))]
      ELSE IF args[1] = DELUSER THEN [tbl EXCEPT ![u] = Absent]
      ELSE tbl

\* ------------------------------------------------------------------ state
VARIABLES
  initialized,   \* the connection producer holds a validated configuration
  topology,      \* "none", "single" or "cluster"
  members,       \* the nodes the cluster client knows (its topology)
  acl,           \* acl[n][u]: the entry of user u in the ACL table of node n
  client,        \* the cached client handle, 0 when there is none
  handles,       \* handles established so far; handle ids are 1, 2, ...
  mu,            \* the caller holding the mutex, 0 when it is free
  crashed,       \* the plugin process died of a panic
  ncalls,        \* calls invoked so far
  call,          \* call[p]: the call caller p is in, or has last returned from
  aclAtLock,     \* history: the ACL tables when the mutex was last acquired
  deleted,       \* history: users deleted on all members, with no create and
                 \* no membership change since
  nameIn,        \* SpecName: the display and role name given
  nameOut,       \* SpecName: the username generated from them
  stmtsIn,       \* SpecCreate: the creation statements given
  cmdOut         \* SpecCreate: the create command built from them

vars == << initialized, topology, members, acl, client, handles,
           mu, crashed, ncalls, call, aclAtLock, deleted, nameIn, nameOut,
           stmtsIn, cmdOut >>

NoErr == [kind |-> "nil", node |-> 0]
NoName == [done |-> FALSE, name |-> <<>>]
NoCmd == [done |-> FALSE, ok |-> FALSE, aclargs |-> <<>>]
Err(k, n) == [kind |-> k, node |-> n]

IdleCall ==
  [pc |-> "idle", op |-> "none", username |-> <<>>, password |-> <<>>,
   commands |-> <<>>, hasPw |-> FALSE, db |-> 0, phase |-> "none", nodes |-> {},
   visited |-> {}, aclargs |-> <<>>, err |-> NoErr, ret |-> <<>>,
   log |-> <<>>, snaps |-> <<>>, todo |-> <<>>, stable |-> FALSE,
   wasDeleted |-> FALSE]

EmptyACL == [n \in Nodes |-> [u \in UserNames |-> Absent]]

\* The store outlives the plugin process: it is empty, or every node holds a
\* user that an earlier run of the plugin created with the default rule.
EarlierUser == NewUserName(DisplayIn, RoleIn, Rep("x", uuidLen), NowIn)
EarlierACL ==
  [n \in Nodes |->
     DoACL(EmptyACL[n], BuildCreate(EarlierUser, Pw1, <<>>).aclargs)]

Init ==
  /\ initialized = FALSE
  /\ topology = "none"
  /\ members = {}
  /\ acl \in {EmptyACL, EarlierACL}
  /\ client = 0
  /\ handles = 0
  /\ mu = 0
  /\ crashed = FALSE
  /\ ncalls = 0
  /\ call = [p \in Procs |-> IdleCall]
  /\ aclAtLock = acl
  /\ deleted = {}
  /\ nameIn = << <<>>, <<>> >>
  /\ nameOut = NoName
  /\ stmtsIn = <<>>
  /\ cmdOut = NoCmd

\* ---------------------------------------------------- connection producer
\* Connection(ctx): the cached handle when there is one, else a newly
\* established and cached one, or the error when it cannot be established
Connection(connOk) ==
  IF client # 0 THEN [ok |-> TRUE, h |-> client, n |-> handles]
  ELSE IF connOk THEN [ok |-> TRUE, h |-> handles + 1, n |-> handles + 1]
  ELSE [ok |-> FALSE, h |-> 0, n |-> handles]

\* close(): the producer releases the cached handle and clears it, whether
\* or not the release reports an error
Close(closeOk) == [client |-> 0, ok |-> closeOk]

\* the nodes a fan-out visits: the one server of a pool, or the node map of
\* the cluster topology as it is when it is read
Snapshot == IF topology = "single" THEN {1} ELSE members

\* Cluster.Client(node) has a client for the members of the topology only
ClientKnown(node) == topology = "single" \/ node \in members

\* --------------------------------------------------------- return paths
\* DeleteUser without the deferred close
DeferredCallsNoCloseOnDelete(op) ==
  IF op = "UpdateUser" THEN <<"close", "unlock">> ELSE <<"unlock">>

\* the close deferred before the Unlock, so that it runs after it
DeferredCallsUnlockFirst(op) ==
  IF op \in {"DeleteUser", "UpdateUser"} THEN <<"unlock", "close">>
  ELSE <<"unlock">>

\* a close deferred by NewUser as well
DeferredCallsCloseAlways(op) == <<"close", "unlock">>

\* the calls deferred once the connection is obtained, in the order they run
DeferredCalls(op) ==
  IF op \in {"DeleteUser", "UpdateUser"} THEN <<"close", "unlock">>
  ELSE <<"unlock">>

Return(c, e) ==
  [c EXCEPT !.err = e, !.pc = "exit", !.todo = DeferredCalls(c.op),
            !.ret = IF c.op = "NewUser" /\ e = NoErr THEN c.username ELSE <<>>]

\* a return before the connection is obtained that leaves the mutex locked
ReturnEarlyNoUnlock(c, e) ==
  [IdleCall EXCEPT !.pc = "done", !.op = c.op, !.hasPw = c.hasPw, !.err = e]

\* a return before the connection is obtained: only the unlock is deferred
ReturnEarly(c, e) ==
  [c EXCEPT !.err = e, !.pc = "exit", !.todo = <<"unlock">>]

\* the errors the fan-out loops return
CreateError(node) == Err("ACLCommandFailed", 0)

\* the error of the delete command dropped
DeleteErrorSwallowed(node) == NoErr

DeleteError(node) ==
  Err("ACLCommandFailed", IF topology = "cluster" THEN node ELSE 0)

\* the existence check without the test of mn.Nil
GetUserErrorIgnoreNil(reply, node) ==
  IF reply = "err"
  THEN Err("ACLCommandFailed", IF topology = "cluster" THEN node ELSE 0)
  ELSE NoErr

GetUserError(reply, node) ==
  LET n == IF topology = "cluster" THEN node ELSE 0
  IN  IF reply = "err" THEN Err("ACLCommandFailed", n)
      ELSE IF reply = "nil" THEN Err("UserNotFound", n)
      ELSE NoErr

ResetError(node) ==
  Err("ACLCommandFailed", IF topology = "cluster" THEN node ELSE 0)

DeleteArgs(username) == <<DELUSER, username>>
GetUserArgs(username) == <<GETUSER, username>>
\* a reset command that grants a rule as well
ResetArgsWithRule(username, password) ==
  <<SETUSER, username, RESETPASS, <<">">> \o password, <<"+", "@", "a", "l", "l">> >>

ResetArgs(username, password) ==
  <<SETUSER, username, RESETPASS, <<">">> \o password>>

\* the loop left after its first iteration
LoopDoneAfterFirst(c) == c.visited # {}

\* the range loop over the node map has visited every node of the map
LoopDone(c) == c.visited = c.nodes

\* ---------------------------------------------------------------- actions
Initialize(kind, n) ==
  /\ ~initialized
  /\ initialized' = TRUE
  /\ topology' = kind
  /\ members' = IF kind = "single" THEN {1} ELSE 1..n
  /\ UNCHANGED << acl, client, handles, mu, crashed, ncalls,
                  call, aclAtLock, deleted, nameIn, nameOut, stmtsIn, cmdOut >>

CanInvoke(p) ==
  /\ ~crashed
  /\ initialized
  /\ call[p].pc \in {"idle", "done"}
  /\ ncalls < MaxCalls

\* The host invokes an operation. What the request holds is drawn where the
\* handler first reads it, after the mutex is acquired.
InvokeNewUser(p) ==
  /\ CanInvoke(p)
  /\ call' = [call EXCEPT ![p] = [IdleCall EXCEPT !.pc = "lock",
                                                   !.op = "NewUser"]]
  /\ ncalls' = ncalls + 1
  /\ UNCHANGED << initialized, topology, members, acl, client,
                  handles, mu, crashed, aclAtLock, deleted, nameIn, nameOut, stmtsIn, cmdOut >>

\* UpdateUser that rotates whatever the request holds
UpdateUserAlwaysRotate(p, hasPassword) ==
  /\ CanInvoke(p)
  /\ call' = [call EXCEPT ![p] = [IdleCall EXCEPT
                 !.pc = "lock", !.op = "UpdateUser", !.hasPw = hasPassword]]
  /\ ncalls' = ncalls + 1
  /\ UNCHANGED << initialized, topology, members, acl, client,
                  handles, mu, crashed, aclAtLock, deleted, nameIn, nameOut, stmtsIn, cmdOut >>

\* UpdateUser: changeUserPassword when the request holds a password change,
\* else nothing
UpdateUser(p, hasPassword) ==
  /\ CanInvoke(p)
  /\ call' = [call EXCEPT ![p] = [IdleCall EXCEPT
                 !.pc = IF hasPassword THEN "lock" ELSE "done",
                 !.op = "UpdateUser", !.hasPw = hasPassword]]
  /\ ncalls' = ncalls + 1
  /\ UNCHANGED << initialized, topology, members, acl, client,
                  handles, mu, crashed, aclAtLock, deleted, nameIn, nameOut, stmtsIn, cmdOut >>

InvokeDeleteUser(p) ==
  /\ CanInvoke(p)
  /\ call' = [call EXCEPT ![p] = [IdleCall EXCEPT !.pc = "lock",
                                                   !.op = "DeleteUser"]]
  /\ ncalls' = ncalls + 1
  /\ UNCHANGED << initialized, topology, members, acl, client,
                  handles, mu, crashed, aclAtLock, deleted, nameIn, nameOut, stmtsIn, cmdOut >>

\* Type that takes the mutex first
TypeLocked(p) ==
  /\ CanInvoke(p)
  /\ call' = [call EXCEPT ![p] = [IdleCall EXCEPT !.pc = "lock",
                 !.op = "Type", !.ret = redisTypeName]]
  /\ ncalls' = ncalls + 1
  /\ UNCHANGED << initialized, topology, members, acl, client,
                  handles, mu, crashed, aclAtLock, deleted, nameIn, nameOut, stmtsIn, cmdOut >>

Type(p) ==
  /\ CanInvoke(p)
  /\ call' = [call EXCEPT ![p] = [IdleCall EXCEPT !.pc = "done",
                 !.op = "Type", !.ret = redisTypeName]]
  /\ ncalls' = ncalls + 1
  /\ UNCHANGED << initialized, topology, members, acl, client,
                  handles, mu, crashed, aclAtLock, deleted, nameIn, nameOut, stmtsIn, cmdOut >>

\* Lock that does not wait for the mutex to be free
LockNoWait(p) ==
  /\ ~crashed
  /\ call[p].pc = "lock"
  /\ mu' = p
  /\ aclAtLock' = acl
  /\ call' = [call EXCEPT ![p].pc = "begin"]
  /\ UNCHANGED << initialized, topology, members, acl, client,
                  handles, crashed, ncalls, deleted, nameIn, nameOut, stmtsIn, cmdOut >>

Lock(p) ==
  /\ ~crashed
  /\ call[p].pc = "lock"
  /\ mu = 0
  /\ mu' = p
  /\ aclAtLock' = acl
  /\ call' = [call EXCEPT ![p].pc = "begin"]
  /\ UNCHANGED << initialized, topology, members, acl, client,
                  handles, crashed, ncalls, deleted, nameIn, nameOut, stmtsIn, cmdOut >>

\* NewUser up to the first store command: the username, the connection, the
\* command arguments and, for a cluster, the topology
NewUserBegin(p, commands, genOk, uuid, connOk) ==
  LET c == [call[p] EXCEPT !.password = Pw1, !.commands = commands]
      username == NewUserName(DisplayIn, RoleIn, uuid, NowIn)
      conn == Connection(connOk)
      built == BuildCreate(username, c.password, c.commands)
      c1 == [c EXCEPT !.username = username, !.db = conn.h]
  IN  /\ ~crashed
      /\ c.pc = "begin" /\ c.op = "NewUser"
      /\ IF ~genOk
         THEN /\ call' = [call EXCEPT ![p] =
                            ReturnEarly(c, Err("UsernameGenerationFailed", 0))]
              /\ UNCHANGED << client, handles >>
         ELSE IF ~conn.ok
         THEN /\ call' = [call EXCEPT ![p] =
                            ReturnEarly(c1, Err("ConnectionFailed", 0))]
              /\ UNCHANGED << client, handles >>
         ELSE /\ client' = conn.h
              /\ handles' = conn.n
              /\ call' = [call EXCEPT ![p] =
                   IF ~built.ok THEN Return(c1, Err("RuleParseFailed", 0))
                   ELSE [c1 EXCEPT !.pc = "fan", !.phase = "create",
                                   !.aclargs = built.aclargs,
                                   !.nodes = Snapshot, !.visited = {},
                                   !.stable = TRUE,
                                   !.snaps = <<[phase |-> "create",
                                                nodes |-> Snapshot]>>]]
      /\ UNCHANGED << initialized, topology, members, acl, mu,
                      crashed, ncalls, aclAtLock, deleted, nameIn, nameOut, stmtsIn, cmdOut >>

LogEntry(c, node, reply) ==
  [phase |-> c.phase, node |-> node, args |-> c.aclargs, reply |-> reply]

\* a loop of newUser that tries a failed node again
CreateStepRetry(p, node, ok) ==
  LET c == call[p]
      c1 == [c EXCEPT !.visited = IF ok THEN @ \cup {node} ELSE @,
                      !.log = Append(@, LogEntry(c, node, IF ok THEN "ok" ELSE "err"))]
  IN  /\ ~crashed
      /\ c.pc = "fan" /\ c.phase = "create"
      /\ node \in c.nodes \ c.visited
      /\ Len(c.log) < 3
      /\ IF ~ClientKnown(node)
         THEN /\ call' = [call EXCEPT ![p] = Return(c, Err("panic", node))]
              /\ UNCHANGED << acl, deleted >>
         ELSE IF ~ok
         THEN /\ call' = [call EXCEPT ![p] = c1]
              /\ UNCHANGED << acl, deleted >>
         ELSE /\ acl' = [acl EXCEPT ![node] = DoACL(@, c.aclargs)]
              /\ deleted' = deleted \ {c.username}
              /\ call' = [call EXCEPT ![p] =
                   IF LoopDone(c1) THEN Return(c1, NoErr) ELSE c1]
      /\ UNCHANGED << initialized, topology, members, client,
                      handles, mu, crashed, ncalls, aclAtLock, nameIn, nameOut, stmtsIn, cmdOut >>

\* one iteration of the loop of newUser (the one command, for a pool)
CreateStep(p, node, ok) ==
  LET c == call[p]
      c1 == [c EXCEPT !.visited = @ \cup {node},
                      !.log = Append(@, LogEntry(c, node, IF ok THEN "ok" ELSE "err"))]
  IN  /\ ~crashed
      /\ c.pc = "fan" /\ c.phase = "create"
      /\ node \in c.nodes \ c.visited
      /\ IF ~ClientKnown(node)
         THEN /\ call' = [call EXCEPT ![p] = Return(c, Err("panic", node))]
              /\ UNCHANGED << acl, deleted >>
         ELSE IF ~ok
         THEN /\ call' = [call EXCEPT ![p] = Return(c1, CreateError(node))]
              /\ UNCHANGED << acl, deleted >>
         ELSE /\ acl' = [acl EXCEPT ![node] = DoACL(@, c.aclargs)]
              /\ deleted' = deleted \ {c.username}
              /\ call' = [call EXCEPT ![p] =
                   IF LoopDone(c1) THEN Return(c1, NoErr) ELSE c1]
      /\ UNCHANGED << initialized, topology, members, client,
                      handles, mu, crashed, ncalls, aclAtLock, nameIn, nameOut, stmtsIn, cmdOut >>

\* DeleteUser up to the first store command
DeleteUserBegin(p, username, connOk) ==
  LET c == [call[p] EXCEPT !.username = username]
      conn == Connection(connOk)
      c1 == [c EXCEPT !.db = conn.h]
  IN  /\ ~crashed
      /\ c.pc = "begin" /\ c.op = "DeleteUser"
      /\ IF ~conn.ok
         THEN /\ call' = [call EXCEPT ![p] =
                            ReturnEarly(c1, Err("ConnectionFailed", 0))]
              /\ UNCHANGED << client, handles >>
         ELSE /\ client' = conn.h
              /\ handles' = conn.n
              /\ call' = [call EXCEPT ![p] =
                   [c1 EXCEPT !.pc = "fan", !.phase = "delete",
                              !.aclargs = DeleteArgs(c.username),
                              !.nodes = Snapshot, !.visited = {},
                              !.stable = TRUE,
                              !.snaps = <<[phase |-> "delete",
                                           nodes |-> Snapshot]>>]]
      /\ UNCHANGED << initialized, topology, members, acl, mu,
                      crashed, ncalls, aclAtLock, deleted, nameIn, nameOut, stmtsIn, cmdOut >>

\* one iteration of the loop of DeleteUser (the one command, for a pool)
DeleteStep(p, node, ok) ==
  LET c == call[p]
      c1 == [c EXCEPT !.visited = @ \cup {node},
                      !.log = Append(@, LogEntry(c, node, IF ok THEN "ok" ELSE "err"))]
  IN  /\ ~crashed
      /\ c.pc = "fan" /\ c.phase = "delete"
      /\ node \in c.nodes \ c.visited
      /\ IF ~ClientKnown(node)
         THEN /\ call' = [call EXCEPT ![p] = Return(c, Err("panic", node))]
              /\ UNCHANGED acl
         ELSE IF ~ok
         THEN /\ call' = [call EXCEPT ![p] = Return(c1, DeleteError(node))]
              /\ UNCHANGED acl
         ELSE /\ acl' = [acl EXCEPT ![node] = DoACL(@, c.aclargs)]
              /\ call' = [call EXCEPT ![p] =
                   IF LoopDone(c1) THEN Return(c1, NoErr) ELSE c1]
      /\ UNCHANGED << initialized, topology, members, client,
                      handles, mu, crashed, ncalls, aclAtLock, deleted,
                      nameIn, nameOut, stmtsIn, cmdOut >>

\* changeUserPassword up to the first store command
ChangePasswordBegin(p, username, connOk) ==
  LET c == [call[p] EXCEPT !.username = username, !.password = Pw2,
                           !.stable = TRUE,
                           !.wasDeleted = username \in deleted]
      conn == Connection(connOk)
      c1 == [c EXCEPT !.db = conn.h]
  IN  /\ ~crashed
      /\ c.pc = "begin" /\ c.op = "UpdateUser"
      /\ IF ~conn.ok
         THEN /\ call' = [call EXCEPT ![p] =
                            ReturnEarly(c1, Err("ConnectionFailed", 0))]
              /\ UNCHANGED << client, handles >>
         ELSE /\ client' = conn.h
              /\ handles' = conn.n
              /\ call' = [call EXCEPT ![p] =
                   [c1 EXCEPT !.pc = "fan", !.phase = "check",
                              !.aclargs = GetUserArgs(c.username),
                              !.nodes = Snapshot, !.visited = {},
                              !.snaps = <<[phase |-> "check",
                                           nodes |-> Snapshot]>>]]
      /\ UNCHANGED << initialized, topology, members, acl, mu,
                      crashed, ncalls, aclAtLock, deleted, nameIn, nameOut, stmtsIn, cmdOut >>

\* one iteration of the existence check of changeUserPassword; after the
\* last one the topology is read again for the reset loop
CheckStep(p, node, ok) ==
  LET c == call[p]
      reply == IF ~ok THEN "err"
               ELSE IF acl[node][c.username].exists THEN "ok" ELSE "nil"
      c1 == [c EXCEPT !.visited = @ \cup {node},
                      !.log = Append(@, LogEntry(c, node, reply))]
  IN  /\ ~crashed
      /\ c.pc = "fan" /\ c.phase = "check"
      /\ node \in c.nodes \ c.visited
      /\ call' = [call EXCEPT ![p] =
           IF ~ClientKnown(node) THEN Return(c, Err("panic", node))
           ELSE IF GetUserError(reply, node) # NoErr
                THEN Return(c1, GetUserError(reply, node))
           ELSE IF ~LoopDone(c1) THEN c1
           ELSE [c1 EXCEPT !.phase = "reset",
                           !.aclargs = ResetArgs(c.username, c.password),
                           !.nodes = Snapshot, !.visited = {},
                           !.snaps = Append(@, [phase |-> "reset",
                                                nodes |-> Snapshot])]]
      /\ UNCHANGED << initialized, topology, members, acl,
                      client, handles, mu, crashed, ncalls, aclAtLock,
                      deleted, nameIn, nameOut, stmtsIn, cmdOut >>

\* one iteration of the reset loop of changeUserPassword
ResetStep(p, node, ok) ==
  LET c == call[p]
      c1 == [c EXCEPT !.visited = @ \cup {node},
                      !.log = Append(@, LogEntry(c, node, IF ok THEN "ok" ELSE "err"))]
  IN  /\ ~crashed
      /\ c.pc = "fan" /\ c.phase = "reset"
      /\ node \in c.nodes \ c.visited
      /\ IF ~ClientKnown(node)
         THEN /\ call' = [call EXCEPT ![p] = Return(c, Err("panic", node))]
              /\ UNCHANGED acl
         ELSE IF ~ok
         THEN /\ call' = [call EXCEPT ![p] = Return(c1, ResetError(node))]
              /\ UNCHANGED acl
         ELSE /\ acl' = [acl EXCEPT ![node] = DoACL(@, c.aclargs)]
              /\ call' = [call EXCEPT ![p] =
                   IF LoopDone(c1) THEN Return(c1, NoErr) ELSE c1]
      /\ UNCHANGED << initialized, topology, members, client,
                      handles, mu, crashed, ncalls, aclAtLock, deleted,
                      nameIn, nameOut, stmtsIn, cmdOut >>

\* a deferred call has run: the next one, or the return to the host
AfterDefer(c) ==
  IF Tail(c.todo) # <<>> THEN [c EXCEPT !.todo = Tail(@)]
  ELSE [IdleCall EXCEPT !.pc = "done", !.op = c.op, !.hasPw = c.hasPw,
                        !.err = c.err, !.ret = c.ret, !.db = c.db]

\* what the return of call c leaves behind: a panic ends the process
ReturnEffects(c) ==
  LET last == Tail(c.todo) = <<>>
  IN  /\ crashed' = (last /\ c.err.kind = "panic")
      /\ deleted' = IF /\ last /\ c.op = "DeleteUser" /\ c.err = NoErr
                       /\ c.stable
                    THEN deleted \cup {c.username} ELSE deleted

\* a deferred close whose failure becomes the result of the call
CloseStepPropagates(p, ok) ==
  LET c == call[p]
      c1 == [c EXCEPT !.log = Append(@, [phase |-> "close", node |-> 0,
                                          args |-> <<>>,
                                          reply |-> IF Close(ok).ok THEN "ok"
                                                    ELSE "err"]),
                      !.err = IF Close(ok).ok THEN @ ELSE Err("CloseFailed", 0)]
  IN  /\ ~crashed
      /\ c.pc = "exit" /\ Head(c.todo) = "close"
      /\ client' = Close(ok).client
      /\ call' = [call EXCEPT ![p] = AfterDefer(c1)]
      /\ ReturnEffects(c)
      /\ UNCHANGED << initialized, topology, members, acl,
                      handles, mu, ncalls, aclAtLock, nameIn, nameOut, stmtsIn, cmdOut >>

\* the deferred close of DeleteUser and changeUserPassword: the producer
\* drops the cached handle; a failure of the close is logged only
CloseStep(p, ok) ==
  LET c == call[p]
      c1 == [c EXCEPT !.log = Append(@, [phase |-> "close", node |-> 0,
                                          args |-> <<>>,
                                          reply |-> IF Close(ok).ok THEN "ok"
                                                    ELSE "err"])]
  IN  /\ ~crashed
      /\ c.pc = "exit" /\ Head(c.todo) = "close"
      /\ client' = Close(ok).client
      /\ call' = [call EXCEPT ![p] = AfterDefer(c1)]
      /\ ReturnEffects(c)
      /\ UNCHANGED << initialized, topology, members, acl,
                      handles, mu, ncalls, aclAtLock, nameIn, nameOut, stmtsIn, cmdOut >>

\* the deferred Unlock
Unlock(p) ==
  LET c == call[p]
  IN  /\ ~crashed
      /\ c.pc = "exit" /\ Head(c.todo) = "unlock"
      /\ mu' = 0
      /\ aclAtLock' = acl
      /\ call' = [call EXCEPT ![p] = AfterDefer(c)]
      /\ ReturnEffects(c)
      /\ UNCHANGED << initialized, topology, members, acl,
                      client, handles, ncalls, nameIn, nameOut, stmtsIn, cmdOut >>

\* the cluster's membership changes and the cluster client follows it
TopoChange(m) ==
  /\ ~crashed
  /\ topology = "cluster"
  /\ m # {} /\ m # members
  /\ members' = m
  /\ deleted' = {}
  /\ call' = [p \in Procs |-> [call[p] EXCEPT !.stable = FALSE]]
  /\ UNCHANGED << initialized, topology, acl, client, handles, mu, crashed,
                  ncalls, aclAtLock, nameIn, nameOut, stmtsIn, cmdOut >>

Next ==
  \/ \E kind \in {"single", "cluster"}, n \in Nodes : Initialize(kind, n)
  \/ \E p \in Procs : InvokeNewUser(p)
  \/ \E p \in Procs, b \in BOOLEAN : UpdateUser(p, b)
  \/ \E p \in Procs : InvokeDeleteUser(p)
  \/ \E p \in Procs : Type(p)
  \/ \E p \in Procs : Lock(p)
  \/ \E p \in Procs, cmds \in StmtLists, g \in BOOLEAN, id \in UUIDs,
        ok \in BOOLEAN : NewUserBegin(p, cmds, g, id, ok)
  \/ \E p \in Procs, n \in Nodes, ok \in BOOLEAN : CreateStep(p, n, ok)
  \/ \E p \in Procs, u \in UserNames, ok \in BOOLEAN : DeleteUserBegin(p, u, ok)
  \/ \E p \in Procs, n \in Nodes, ok \in BOOLEAN : DeleteStep(p, n, ok)
  \/ \E p \in Procs, u \in UserNames, ok \in BOOLEAN :
        ChangePasswordBegin(p, u, ok)
  \/ \E p \in Procs, n \in Nodes, ok \in BOOLEAN : CheckStep(p, n, ok)
  \/ \E p \in Procs, n \in Nodes, ok \in BOOLEAN : ResetStep(p, n, ok)
  \/ \E p \in Procs, ok \in BOOLEAN : CloseStep(p, ok)
  \/ \E p \in Procs : Unlock(p)
  \/ \E k \in Nodes : TopoChange(1..k)

Spec == Init /\ [][Next]_vars

\* the steps of the call of caller p once it holds the mutex: every
\* connection attempt, store command and close returns
Proceed(p) ==
  \/ \E cmds \in StmtLists, g \in BOOLEAN, id \in UUIDs, ok \in BOOLEAN :
        NewUserBegin(p, cmds, g, id, ok)
  \/ \E n \in Nodes, ok \in BOOLEAN : CreateStep(p, n, ok)
  \/ \E u \in UserNames, ok \in BOOLEAN : DeleteUserBegin(p, u, ok)
  \/ \E n \in Nodes, ok \in BOOLEAN : DeleteStep(p, n, ok)
  \/ \E u \in UserNames, ok \in BOOLEAN : ChangePasswordBegin(p, u, ok)
  \/ \E n \in Nodes, ok \in BOOLEAN : CheckStep(p, n, ok)
  \/ \E n \in Nodes, ok \in BOOLEAN : ResetStep(p, n, ok)
  \/ \E ok \in BOOLEAN : CloseStep(p, ok)
  \/ Unlock(p)

\* The lifecycle under scheduling: a call that can take a step takes one,
\* and a call waiting in Lock gets the mutex when it is free again and again
\* (sync.Mutex hands the mutex to a waiter that has waited long).
Fairness ==
  \A p \in Procs : WF_vars(Proceed(p)) /\ SF_vars(Lock(p))

SpecLive == Init /\ [][Next]_vars /\ Fairness

\* ------------------------------------------- username generation alone
\* The username NewUser generates, for display and role names of many
\* lengths: the lines of NewUser before the connection is requested.
NameLens == {0, 1, 2, 20, maxKeyLength - 1, maxKeyLength, maxKeyLength + 1,
             MaxNameLen}
NameChars == {"a", "Z", "-"}
Names == {Rep(ch, n) : ch \in NameChars, n \in NameLens}

InitName ==
  /\ initialized = FALSE
  /\ topology = "none"
  /\ members = {}
  /\ acl = EmptyACL
  /\ client = 0
  /\ handles = 0
  /\ mu = 0
  /\ crashed = FALSE
  /\ ncalls = 0
  /\ call = [p \in Procs |-> IdleCall]
  /\ aclAtLock = EmptyACL
  /\ deleted = {}
  /\ nameIn \in Names \X Names
  /\ nameOut = NoName
  /\ stmtsIn = <<>>
  /\ cmdOut = NoCmd

GenName(uuid) ==
  /\ ~nameOut.done
  /\ nameOut' = [done |-> TRUE,
                 name |-> NewUserName(nameIn[1], nameIn[2], uuid, NowIn)]
  /\ UNCHANGED << initialized, topology, members, acl, client,
                  handles, mu, crashed, ncalls, call, aclAtLock, deleted,
                  nameIn, stmtsIn, cmdOut >>

NextName == \E uuid \in UUIDs : GenName(uuid)

SpecName == InitName /\ [][NextName]_vars

\* ------------------------------------------------- create command alone
\* The create command newUser builds, for lists of creation statements: the
\* lines of newUser before the first store command. A statement is given
\* with the tokens it was written from, blank, or no JSON at all.
TokKeys == <<"~", "*">>
TokRead == <<"+", "@", "r", "e", "a", "d">>
TokQuote == <<"a", "\"", "b", "\\", "c">>
TokSpace == <<"x", " ", "y">>
RuleTokens == { <<>>, <<TokKeys>>, <<TokKeys, TokRead>>, <<TokRead, TokKeys>>,
                <<TokQuote>>, <<TokSpace, TokKeys>> }

\* the JSON text of a string: quotes and backslashes are escaped
RECURSIVE Escape(_)
Escape(t) ==
  IF t = <<>> THEN <<>>
  ELSE (IF Head(t) \in {"\"", "\\"} THEN <<"\\", Head(t)>> ELSE <<Head(t)>>)
       \o Escape(Tail(t))

Quote(t) == <<"\"">> \o Escape(t) \o <<"\"">>

RECURSIVE EncodeElems(_, _)
EncodeElems(tokens, pad) ==
  IF tokens = <<>> THEN <<>>
  ELSE IF Len(tokens) = 1 THEN Quote(Head(tokens))
  ELSE Quote(Head(tokens)) \o <<",">> \o pad \o EncodeElems(Tail(tokens), pad)

\* the JSON text of an array of strings, pad after each comma
Encode(tokens, pad) == <<"[">> \o EncodeElems(tokens, pad) \o <<"]">>

StmtItems ==
  { [kind |-> "blank", text |-> t, tokens |-> <<>>] : t \in {<<>>, <<" ", "\t">>} }
  \cup { [kind |-> "rule", text |-> Encode(r, <<>>), tokens |-> r] :
           r \in RuleTokens }
  \cup { [kind |-> "rule",
          text |-> <<" ">> \o Encode(r, <<" ">>) \o <<"\n">>,
          tokens |-> r] : r \in RuleTokens }
  \cup { [kind |-> "bad", text |-> BadRule, tokens |-> <<>>] }

StmtSeqs == UNION { [1..n -> StmtItems] : n \in 0..MaxStmts }

Texts(stmts) == [i \in DOMAIN stmts |-> stmts[i].text]

InitCreate ==
  /\ initialized = FALSE
  /\ topology = "none"
  /\ members = {}
  /\ acl = EmptyACL
  /\ client = 0
  /\ handles = 0
  /\ mu = 0
  /\ crashed = FALSE
  /\ ncalls = 0
  /\ call = [p \in Procs |-> IdleCall]
  /\ aclAtLock = EmptyACL
  /\ deleted = {}
  /\ nameIn = << <<>>, <<>> >>
  /\ nameOut = NoName
  /\ stmtsIn \in StmtSeqs
  /\ cmdOut = NoCmd

BuildStep ==
  LET built == BuildCreate(EarlierUser, Pw1, Texts(stmtsIn))
  IN  /\ ~cmdOut.done
      /\ cmdOut' = [done |-> TRUE, ok |-> built.ok, aclargs |-> built.aclargs]
      /\ UNCHANGED << initialized, topology, members, acl, client,
                      handles, mu, crashed, ncalls, call, aclAtLock, deleted,
                      nameIn, nameOut, stmtsIn >>

NextCreate == BuildStep

SpecCreate == InitCreate /\ [][NextCreate]_vars

\* ----------------------------------------------------------------- claims
InProgress(c) == c.pc \in {"begin", "fan", "exit"}
Returning(c) == c.pc = "exit"
HasEntry(c, phase) == \E i \in DOMAIN c.log : c.log[i].phase = phase

\* a call is in its command section from its first store command until its
\* last store command or close has been executed
InSection(c) ==
  /\ c.log # <<>>
  /\ \/ c.pc = "fan"
     \/ c.pc = "exit" /\ \E i \in DOMAIN c.todo : c.todo[i] = "close"

\* C1: the store commands of two calls never interleave: whenever a call
\* issues a store command or closes the connection, no other call is between
\* its first and its last store command.
C1_NoInterleaving ==
  [][\A q \in Procs :
       Len(call'[q].log) > Len(call[q].log)
         => \A p \in Procs \ {q} : ~InSection(call[p])]_vars

\* C1 witness: a call is in the middle of its commands while another call
\* waits for the mutex
C1_Witness ==
  \E p, q \in Procs :
    /\ p # q
    /\ InSection(call[p]) /\ call[p].pc = "fan" /\ Len(call[p].log) >= 1
    /\ call[q].pc = "lock"

NilReply(c) ==
  \E i \in DOMAIN c.log : c.log[i].phase = "check" /\ c.log[i].reply = "nil"

\* C2: a password rotation whose ACL GETUSER is answered nil returns a
\* user-not-found error, has issued no RESETPASS command, and the ACL tables
\* are as they were when the call acquired the mutex.
C2_RotateMissingUser ==
  \A p \in Procs :
    LET c == call[p]
    IN  (c.op = "UpdateUser" /\ NilReply(c))
          => /\ Returning(c)
             /\ c.err.kind = "UserNotFound"
             /\ ~HasEntry(c, "reset")
             /\ acl = aclAtLock

\* C2 witness: a nil answer on a store that holds a user, the call about to
\* return
C2_Witness ==
  \E p \in Procs :
    /\ call[p].op = "UpdateUser" /\ NilReply(call[p])
    /\ call[p].todo = <<"unlock">>
    /\ acl # EmptyACL

Answered(c) ==
  \E i \in DOMAIN c.log : c.log[i].phase = "check" /\ c.log[i].reply # "err"

\* C3: a password rotation for a user that a DeleteUser has deleted with
\* success, with no NewUser for that user and no membership change since,
\* never returns success, and returns user-not-found as soon as a node has
\* answered the existence check.
C3_RotateAfterDelete ==
  \A p \in Procs :
    LET c == call[p]
    IN  (c.op = "UpdateUser" /\ Returning(c) /\ c.wasDeleted /\ c.stable)
          => /\ c.err.kind # "nil"
             /\ Answered(c) => c.err.kind = "UserNotFound"

\* C3 witness: the rotation after a delete, on a cluster of two nodes
C3_Witness ==
  \E p \in Procs :
    /\ call[p].op = "UpdateUser" /\ Returning(call[p]) /\ call[p].wasDeleted
    /\ call[p].stable
    /\ call[p].err.kind = "UserNotFound"
    /\ topology = "cluster" /\ Cardinality(call[p].nodes) = 2

\* C4: the generated username is uppercase, non-empty and at most
\* maxKeyLength characters long.
C4_UsernameBounded ==
  nameOut.done
    => /\ IsUpperCase(nameOut.name)
       /\ Len(nameOut.name) >= 1
       /\ Len(nameOut.name) <= maxKeyLength

\* the fan-out commands a call has issued that change the store
Changing == {"create", "reset", "delete"}
FanLog(c) == SelectSeq(c.log, LAMBDA e : e.phase \in Changing)

\* the change of entry e is in the ACL table of its node
Applied(e) ==
  LET rec == acl[e.node][e.args[2]]
  IN  IF e.phase = "delete" THEN ~rec.exists
      ELSE rec.exists /\ Tail(e.args[4]) \in rec.pws

\* C5: on a cluster, when a create, reset-password or delete command fails
\* on the k-th node visited, the nodes visited before keep the change, the
\* call returns an error, and the error names node k.
C5_FailureNamesNode ==
  \A p \in Procs :
    LET c == call[p]
        f == FanLog(c)
    IN  (topology = "cluster" /\ Returning(c) /\ f # <<>>
           /\ f[Len(f)].reply = "err")
          => /\ c.err.kind # "nil"
             /\ c.err.node = f[Len(f)].node
             /\ \A i \in 1..(Len(f) - 1) : Applied(f[i])

\* the nodes on which call c has attempted the command of a phase
Attempted(c, phase) ==
  {c.log[i].node : i \in {j \in DOMAIN c.log : c.log[j].phase = phase}}

\* C6 as claimed: every fan-out of a call that returns has attempted its
\* command on all nodes of the snapshot it read.
C6_AllNodesAttempted ==
  \A p \in Procs :
    LET c == call[p]
    IN  (topology = "cluster" /\ Returning(c))
          => \A i \in DOMAIN c.snaps :
               Attempted(c, c.snaps[i].phase) = c.snaps[i].nodes

\* C6 as amended: a fan-out attempts its command only on nodes of the
\* snapshot it read, on all of them when it ends without a failure, and on
\* no further node once a node has failed the command, has answered that the
\* user is missing, or has no client.
C6_AllNodesUnlessFailure ==
  \A p \in Procs :
    LET c == call[p]
    IN  (topology = "cluster" /\ c.pc \in {"fan", "exit"})
          => /\ \A i \in DOMAIN c.snaps :
                  /\ Attempted(c, c.snaps[i].phase) \subseteq c.snaps[i].nodes
                  /\ (i < Len(c.snaps) \/ (Returning(c) /\ c.err = NoErr))
                       => Attempted(c, c.snaps[i].phase) = c.snaps[i].nodes
             /\ \A j \in DOMAIN c.log :
                  (c.log[j].phase # "close" /\ c.log[j].reply # "ok")
                    => \A k \in DOMAIN c.log : k > j => c.log[k].phase = "close"

\* C6 witness: a rotation on two nodes whose existence check visited both
\* and whose reset failed on the first node it visited
C6_Witness ==
  \E p \in Procs :
    LET c == call[p]
    IN  /\ topology = "cluster" /\ Returning(c) /\ Len(c.snaps) = 2
        /\ Cardinality(Attempted(c, "check")) = 2
        /\ Cardinality(c.snaps[2].nodes) = 2
        /\ Cardinality(Attempted(c, "reset")) = 1
        /\ c.err.kind = "ACLCommandFailed"

\* the first non-empty statement is no JSON array of strings
Malformed(commands) ==
  LET st == removeEmpty(commands)
  IN  st # <<>> /\ ~Unmarshal(st[1]).ok

\* C7: a NewUser whose first non-empty statement is malformed returns an
\* error, the rule-parse error once the connection is obtained, has issued no
\* command, and the ACL tables are as they were when it acquired the mutex.
C7_MalformedRule ==
  \A p \in Procs :
    LET c == call[p]
    IN  (c.op = "NewUser" /\ c.pc \in {"fan", "exit"} /\ Malformed(c.commands))
          => /\ Returning(c)
             /\ c.err.kind # "nil"
             /\ c.db # 0 => c.err.kind = "RuleParseFailed"
             /\ c.log = <<>>
             /\ acl = aclAtLock

\* C7 witness: the rule-parse error on a store that holds a user
C7_Witness ==
  \E p \in Procs :
    /\ call[p].op = "NewUser" /\ Returning(call[p])
    /\ Malformed(call[p].commands)
    /\ call[p].err.kind = "RuleParseFailed"
    /\ acl # EmptyACL

AllBlank(commands) ==
  \A i \in DOMAIN commands :
    \A j \in DOMAIN commands[i] : commands[i][j] \in Space

DefaultArgs(c) ==
  << SETUSER, c.username, ON, <<">">> \o c.password,
     <<"~", "*">>, <<"+", "@", "r", "e", "a", "d">> >>

\* C8: for a statement list that is empty or holds only blank entries, the
\* create command is built without an error and every create command
\* issued is SETUSER <username> ON ><password> ~* +@read.
C8_DefaultRule ==
  \A p \in Procs :
    LET c == call[p]
    IN  (c.op = "NewUser" /\ c.pc \in {"fan", "exit"} /\ c.db # 0
           /\ AllBlank(c.commands))
          => /\ c.err.kind # "RuleParseFailed"
             /\ c.aclargs = DefaultArgs(c)
             /\ \A i \in DOMAIN c.log : c.log[i].args = DefaultArgs(c)

\* C8 witness: a list of blank entries, the command executed by a node
C8_Witness ==
  \E p \in Procs :
    /\ call[p].op = "NewUser" /\ call[p].commands # <<>>
    /\ AllBlank(call[p].commands)
    /\ \E i \in DOMAIN call[p].log : call[p].log[i].reply = "ok"

\* C9: when DeleteUser has run its deferred close and is about to return,
\* the producer caches no handle; after it has returned, the handle it used
\* is neither cached nor held by a call in progress.
C9_NoHandleAfterDelete ==
  \A p \in Procs :
    LET c == call[p]
    IN  c.op = "DeleteUser"
          => /\ (Returning(c) /\ c.todo = <<"unlock">>) => client = 0
             /\ (c.pc = "done" /\ c.db # 0)
                  => /\ client # c.db
                     /\ \A q \in Procs \ {p} :
                          call[q].pc \in {"fan", "exit"} => call[q].db # c.db

\* C9 witness: a DeleteUser whose command failed has returned and the next
\* call holds another handle
C9_Witness ==
  \E p, q \in Procs :
    /\ call[p].op = "DeleteUser" /\ call[p].pc = "done" /\ call[p].db # 0
    /\ call[p].err.kind = "ACLCommandFailed"
    /\ call[q].pc = "fan" /\ call[q].db # 0

Position(c, phase) == {i \in DOMAIN c.log : c.log[i].phase = phase}

\* C10: once a rotation has issued the password reset, the call holds the
\* mutex and no other call is past its Lock until the connection is closed,
\* and the close comes after every reset command, the mutex still held.
C10_CloseAfterResetUnderLock ==
  \A p \in Procs :
    LET c == call[p]
    IN  (c.op = "UpdateUser" /\ HasEntry(c, "reset"))
          => /\ mu = p
             /\ \A q \in Procs \ {p} : ~InProgress(call[q])
             /\ HasEntry(c, "close")
                  => /\ client = 0
                     /\ \A i \in Position(c, "reset") :
                          \A j \in Position(c, "close") : i < j

\* C10 witness: the connection closed after a reset on both nodes, another
\* call waiting for the mutex
C10_Witness ==
  \E p, q \in Procs :
    /\ call[p].op = "UpdateUser" /\ HasEntry(call[p], "close")
    /\ Cardinality(Attempted(call[p], "reset")) = 2
    /\ call[q].pc = "lock"

\* an UpdateUser call whose request holds no password change
NoOp(c) == c.op = "UpdateUser" /\ ~c.hasPw

\* the step in which caller p is given the answer of such a call
NoOpStep(p) ==
  /\ NoOp(call'[p])
  /\ ncalls' = ncalls + 1
  /\ \A q \in Procs \ {p} : call'[q] = call[q]
  /\ call'[p] # call[p] \/ NoOp(call[p])

\* C11: an UpdateUser with no password change has returned success as soon
\* as it is invoked: it never waits for or holds the mutex, has no handle,
\* no store command and no close, and the step that answers it leaves the
\* ACL tables, the cached handle, the handle count and the mutex unchanged.
C11_UpdateNoOp ==
  [][\A p \in Procs :
       /\ NoOp(call'[p])
            => /\ call'[p].pc = "done" /\ call'[p].err = NoErr
               /\ call'[p].db = 0 /\ call'[p].log = <<>>
               /\ call'[p].todo = <<>>
               /\ mu' # p
       /\ NoOpStep(p) => UNCHANGED << acl, client, handles, mu, members >>]_vars

\* C11 witness: the no-op has returned while another call holds the mutex
\* and the cached handle
C11_Witness ==
  \E p, q \in Procs :
    /\ NoOp(call[p]) /\ call[p].pc = "done" /\ call[p].err = NoErr
    /\ mu = q /\ call[q].pc = "fan" /\ client # 0

\* call q obtains its handle from the producer in this step
Obtains(q) ==
  /\ call[q].pc = "begin" /\ call'[q].pc \in {"fan", "exit"}
  /\ call'[q].db # 0

\* a deferred close of an UpdateUser or DeleteUser call runs in this step
ClosedByUpdateOrDelete ==
  \E p \in Procs :
    /\ call[p].op \in {"UpdateUser", "DeleteUser"}
    /\ call[p].pc = "exit" /\ Head(call[p].todo) = "close"
    /\ call'[p] # call[p]

\* C12: a call that asks for the connection while a handle is cached is
\* given that handle; the cached handle is replaced only when none is cached
\* and is dropped only by the close of an UpdateUser or DeleteUser; so a
\* NewUser call that holds a handle holds the cached one until it returns.
C12_SameHandle ==
  [][/\ \A q \in Procs :
          /\ Obtains(q) => /\ call'[q].db = client'
                           /\ client # 0 => call'[q].db = client
          /\ (call'[q].op = "NewUser" /\ call'[q].pc \in {"fan", "exit"}
                /\ call'[q].db # 0) => client' = call'[q].db
     /\ client' # client
          => IF client = 0 THEN client' = handles + 1 /\ handles' = client'
             ELSE client' = 0 /\ ClosedByUpdateOrDelete]_vars

\* C12 witness: a NewUser that failed on the store has returned and a second
\* NewUser works on the handle the first one used, the only one established
C12_Witness ==
  \E p, q \in Procs :
    /\ call[p].op = "NewUser" /\ call[p].pc = "done"
    /\ call[p].err.kind = "ACLCommandFailed" /\ call[p].db # 0
    /\ call[q].op = "NewUser" /\ call[q].pc = "fan"
    /\ call[q].db = call[p].db /\ client = call[q].db /\ handles = 1

\* C13: while a password rotation runs and when it returns, on every node
\* the entry of every other user is as it was when the call acquired the
\* mutex, the named user has the rules and the enable state it had then, and
\* where the user existed its entry differs in the password only; after a
\* successful rotation the new password is the user's only password on every
\* node of the reset fan-out.
C13_RotationFrame ==
  \A p \in Procs :
    LET c == call[p]
    IN  (c.op = "UpdateUser" /\ c.pc \in {"fan", "exit"})
          => /\ \A n \in Nodes :
                  /\ \A u \in UserNames \ {c.username} :
                       acl[n][u] = aclAtLock[n][u]
                  /\ acl[n][c.username].rules = aclAtLock[n][c.username].rules
                  /\ acl[n][c.username].on = aclAtLock[n][c.username].on
                  /\ aclAtLock[n][c.username].exists
                       => acl[n][c.username] =
                            [aclAtLock[n][c.username] EXCEPT
                               !.pws = acl[n][c.username].pws]
             /\ (Returning(c) /\ c.err = NoErr)
                  => /\ Len(c.snaps) = 2
                     /\ \A n \in c.snaps[2].nodes :
                          acl[n][c.username].pws = {c.password}

\* C13 witness: a rotation has succeeded on both nodes of a cluster that
\* holds another user, and the user rotated has a rule
C13_Witness ==
  \E p \in Procs :
    LET c == call[p]
    IN  /\ c.op = "UpdateUser" /\ Returning(c) /\ c.err = NoErr
        /\ topology = "cluster" /\ c.snaps[2].nodes = {1, 2}
        /\ acl # aclAtLock
        /\ acl[1][c.username].rules # <<>>
        /\ \E u \in UserNames \ {c.username} : acl[2][u].exists

\* the step in which caller p is given the answer of a Type call
TypeStep(p) ==
  /\ call'[p].op = "Type"
  /\ ncalls' = ncalls + 1
  /\ \A q \in Procs \ {p} : call'[q] = call[q]
  /\ call'[p] # call[p] \/ call[p].op = "Type"

\* C14: a Type call has returned "redis" and no error as soon as it is
\* invoked, whoever holds the mutex: it never waits for or holds the mutex,
\* and the step that answers it changes nothing of the producer, the store
\* or the other calls.
C14_TypeConstant ==
  [][\A p \in Procs :
       /\ call'[p].op = "Type"
            => /\ call'[p].pc = "done"
               /\ call'[p].ret = <<"r", "e", "d", "i", "s">>
               /\ call'[p].err = NoErr
               /\ mu' # p
       /\ TypeStep(p)
            => UNCHANGED << initialized, topology, members, acl, client,
                            handles, mu, crashed, deleted >>]_vars

\* C14 witness: Type has returned while another call holds the mutex in the
\* middle of its store commands
C14_Witness ==
  \E p, q \in Procs :
    /\ call[p].op = "Type" /\ call[p].pc = "done"
    /\ call[p].ret = <<"r", "e", "d", "i", "s">>
    /\ mu = q /\ call[q].pc = "fan" /\ call[q].log # <<>>

\* a store command of call c was not answered with success
CommandFailed(c) ==
  \E i \in DOMAIN c.log : c.log[i].phase # "close" /\ c.log[i].reply # "ok"

\* C15: a call that returns after one of its store commands failed, or after
\* the client of a member node could not be obtained, returns an error to the
\* host: it does not go on to a command on a node whose client it has not
\* got, which ends in a panic.
C15_ErrorsReturned ==
  \A p \in Procs :
    LET c == call[p]
    IN  Returning(c)
          => /\ CommandFailed(c) => c.err.kind \notin {"nil", "panic"}
             /\ c.err.kind # "panic"

\* the deferred close of call c has failed
CloseFailed(c) ==
  \E i \in DOMAIN c.log : c.log[i].phase = "close" /\ c.log[i].reply = "err"

\* C16: a DeleteUser or password rotation whose deferred close has failed
\* returns what its store commands decided: no error when every command was
\* answered with success, the error of the failed command otherwise (a call
\* that ended in a panic stays so); the Unlock is the one call still
\* deferred, and no call that has returned holds the mutex.
C16_CloseFailureIgnored ==
  \A p \in Procs :
    LET c == call[p]
    IN  /\ (c.pc = "exit" /\ CloseFailed(c))
             => /\ c.op \in {"DeleteUser", "UpdateUser"}
                /\ c.todo = <<"unlock">> /\ mu = p
                /\ c.err.kind \in {"nil", "ACLCommandFailed", "UserNotFound",
                                   "panic"}
                /\ c.err.kind # "panic"
                     => (c.err = NoErr <=> ~CommandFailed(c))
        /\ c.pc \in {"idle", "lock", "done"} => mu # p

\* C16 witness: the close has failed after a delete that succeeded on both
\* nodes of a cluster, and the call is about to return success
C16_Witness ==
  \E p \in Procs :
    LET c == call[p]
    IN  /\ c.op = "DeleteUser" /\ c.pc = "exit" /\ CloseFailed(c)
        /\ Cardinality(Attempted(c, "delete")) = 2
        /\ c.err = NoErr

\* the store commands call c has issued, in the order it issued them
Commands(c) == SelectSeq(c.log, LAMBDA e : e.phase # "close")

\* C17: the store commands of one call hold no two commands of the same
\* phase for the same node, and a command that is not answered with success
\* is the last store command of the call, which then returns an error.
C17_NoRetry ==
  \A p \in Procs :
    LET c == call[p]
        cmds == Commands(c)
    IN  c.pc \in {"fan", "exit"}
          => /\ \A i, j \in DOMAIN cmds :
                  (i # j) => \/ cmds[i].phase # cmds[j].phase
                             \/ cmds[i].node # cmds[j].node
             /\ \A i \in DOMAIN cmds :
                  cmds[i].reply # "ok"
                    => /\ i = Len(cmds)
                       /\ Returning(c)
                       /\ c.err.kind \in {"ACLCommandFailed", "UserNotFound"}

\* C17 witness: a rotation on two nodes has checked both, reset the first
\* and failed on the second; it returns with four commands issued
C17_Witness ==
  \E p \in Procs :
    LET c == call[p]
        cmds == Commands(c)
    IN  /\ c.op = "UpdateUser" /\ Returning(c) /\ Len(cmds) = 4
        /\ cmds[3].reply = "ok" /\ cmds[4].reply = "err"
        /\ c.err.kind = "ACLCommandFailed"

\* the statements of a list that are not blank
NonBlank(stmts) == SelectSeq(stmts, LAMBDA st : st.kind # "blank")

\* C18: when the first non-blank statement of the list is a JSON array of
\* strings, the create command is built without an error and is SETUSER
\* <username> ON ><password> followed by the tokens that statement was
\* written from, in their order; the statements after it add nothing.
C18_CreateCommandExact ==
  LET nb == NonBlank(stmtsIn)
  IN  (cmdOut.done /\ nb # <<>> /\ nb[1].kind = "rule")
        => /\ cmdOut.ok
           /\ cmdOut.aclargs =
                << SETUSER, EarlierUser, ON, <<">">> \o Pw1 >> \o nb[1].tokens

\* C18 witness: a blank statement, then a rule of two tokens, then another
\* rule: the command has the two tokens of the first rule
C18_Witness ==
  /\ cmdOut.done /\ Len(stmtsIn) = 3
  /\ stmtsIn[1].kind = "blank"
  /\ stmtsIn[2].kind = "rule" /\ stmtsIn[2].tokens = <<TokRead, TokKeys>>
  /\ stmtsIn[3].kind = "rule" /\ stmtsIn[3].tokens = <<TokQuote>>
  /\ Len(cmdOut.aclargs) = 6

\* the existence check of call c was not answered with success by a node
CheckRefused(c) ==
  \E i \in DOMAIN c.log : c.log[i].phase = "check" /\ c.log[i].reply # "ok"

\* C19: in a password rotation on a cluster whose membership has not
\* changed since the call obtained its connection, a reset command is issued
\* only after every member node has answered the existence check with
\* success; when a node misses the user, or a node has refused the check, no
\* reset command is issued and the ACL tables are as they were when the call
\* acquired the mutex.
C19_CheckBeforeReset ==
  \A p \in Procs :
    LET c == call[p]
    IN  (c.op = "UpdateUser" /\ c.pc \in {"fan", "exit"} /\ c.stable
           /\ topology = "cluster")
          => /\ HasEntry(c, "reset")
                  => /\ Attempted(c, "check") = members
                     /\ ~CheckRefused(c)
                     /\ \A i \in Position(c, "check") :
                          \A j \in Position(c, "reset") : i < j
             /\ (CheckRefused(c)
                   \/ \E n \in members : ~aclAtLock[n][c.username].exists)
                  => /\ ~HasEntry(c, "reset")
                     /\ acl = aclAtLock

\* C19 witness: on two nodes, the first node visited holds the user and the
\* second does not: the rotation returns user-not-found with no reset issued
C19_Witness ==
  \E p \in Procs :
    LET c == call[p]
    IN  /\ c.op = "UpdateUser" /\ Returning(c) /\ c.stable
        /\ topology = "cluster" /\ members = {1, 2}
        /\ Len(c.log) >= 2
        /\ c.log[1].reply = "ok" /\ c.log[2].reply = "nil"
        /\ c.err.kind = "UserNotFound"

\* C20: unless the process has died of a panic, a call is never in progress
\* for ever and never waits in Lock for ever: every call invoked returns,
\* and every call waiting for the mutex leaves the wait, which it does only
\* by acquiring the mutex.
C20_LockReleased ==
  \A p \in Procs :
    /\ []<>(call[p].pc \in {"idle", "done"} \/ crashed)
    /\ []<>(call[p].pc # "lock" \/ crashed)

\* C20 witness: a call has returned a connection failure and the call that
\* waited for the mutex meanwhile now holds it
C20_Witness ==
  \E p, q \in Procs :
    /\ call[p].pc = "done" /\ call[p].err.kind = "ConnectionFailed"
    /\ mu = q /\ call[q].pc \in {"begin", "fan"}

====
